---- MODULE Spec2Model ----
(***************************************************************************)
(* Model of the dagit PipelineRun view (runs/PipelineRun.tsx): the React   *)
(* component state (logsVW, logsFilter, highlightedError), its props.run,  *)
(* the handlers onShowStateDetails / onReexecuteStep / onSetFilter /       *)
(* onApplyStepFilter / onMove / onClose, the awaited re-execution mutation *)
(* and what render() hands to its children.                                *)
(***************************************************************************)
EXTENDS Integers, Sequences, FiniteSets, TLC

VARIABLES
  run,              \* props.run: Undefined or Some(PipelineRunFragment)
  logsVW,           \* state.logsVW
  logsFilter,       \* state.logsFilter
  highlightedError, \* state.highlightedError: Undefined or Some(error)
  inflight,         \* mutation calls whose promise onReexecuteStep awaits
  last,             \* what the handler that ran last did: outcome, collaborator calls, request
  view,             \* what the last render() handed to the child components
  pc,               \* planner walk: position inside onReexecuteStep (lines 143-160)
  stepName,         \* planner walk: the stepName argument
  step,             \* planner walk: the step found at line 145
  inputIdx,         \* planner walk: index of the outer forEach
  outputIdx,        \* planner walk: index of the inner forEach
  reexecutionConfig, \* planner walk: the ReexecutionConfig being filled
  ticks             \* planner walk: statements executed so far

vars == <<run, logsVW, logsFilter, highlightedError, inflight, last, view,
          pc, stepName, step, inputIdx, outputIdx, reexecutionConfig, ticks>>

compVars == <<run, logsVW, logsFilter, highlightedError, inflight, last, view>>
walkVars == <<pc, stepName, step, inputIdx, outputIdx, reexecutionConfig, ticks>>

(***************************************************************************)
(* Bounds                                                                  *)
(***************************************************************************)
MaxLog == 1        \* most events appended to a run's log while it is shown
MaxInFlight == 1   \* most re-execution mutations awaited at once
MaxInputs == 2     \* most inputs of a generated step
MaxOutputs == 2    \* most outputs of a generated upstream step

(***************************************************************************)
(* Optional values (JS undefined / null)                                   *)
(***************************************************************************)
Undefined == <<>>
Some(x) == <<x>>
IsDefined(o) == o # <<>>
Get(o) == o[1]

RECURSIVE SumSeq(_)
SumSeq(s) == IF s = <<>> THEN 0 ELSE s[1] + SumSeq(Tail(s))

SeqsUpTo(S, n) == UNION {[1..k -> S] : k \in 0..n}

(***************************************************************************)
(* Text: strings are sequences of one-character strings so that template   *)
(* concatenation and substring search are computed, not assumed.           *)
(***************************************************************************)
ToLowerChar(c) ==
  CASE c = "A" -> "a"
    [] c = "B" -> "b"
    [] c = "Z" -> "z"
    [] OTHER -> c

ToLower(s) == [i \in 1..Len(s) |-> ToLowerChar(s[i])]

Contains(s, t) ==
  \E k \in 0..(Len(s) - Len(t)) : \A i \in 1..Len(t) : s[k + i] = t[i]

StepPrefix == <<"s", "t", "e", "p", ":">>

(***************************************************************************)
(* Events (PipelineRunFragment.logs.nodes)                                 *)
(***************************************************************************)
ErrBoom == [message |-> "boom", stack |-> <<"f1">>]
ErrOops == [message |-> "oops", stack |-> <<"g1", "g2">>]

Event(tn, st, err, msg, lvl, ts) ==
  [__typename |-> tn, step |-> st, error |-> err, message |-> msg,
   level |-> lvl, timestamp |-> ts]

StepRef(n) == Some([name |-> n])

StartA == Event("ExecutionStepStartEvent", StepRef("A"), Undefined, <<"g", "o">>, "DEBUG", 2)
FailABoom == Event("ExecutionStepFailureEvent", StepRef("A"), Some(ErrBoom), <<"s", "t", "e", "p", ":", "a">>, "ERROR", 3)
FailAOops == Event("ExecutionStepFailureEvent", StepRef("A"), Some(ErrOops), <<"n", "o">>, "ERROR", 1)
SuccessA == Event("ExecutionStepSuccessEvent", StepRef("A"), Undefined, <<"o", "k">>, "INFO", 4)
FailBOops == Event("ExecutionStepFailureEvent", StepRef("B"), Some(ErrOops), <<"S", "T", "E", "P", ":", "B">>, "ERROR", 2)
FailNoStep == Event("ExecutionStepFailureEvent", Undefined, Some(ErrBoom), <<"n", "o">>, "ERROR", 5)
SkippedB == Event("ExecutionStepSkippedEvent", StepRef("B"), Undefined, <<"n", "o">>, "INFO", 1)
LogMessage == Event("LogMessageEvent", Undefined, Undefined, <<"g", "o">>, "DEBUG", 3)

\* The events the subscription may deliver while the view is open.
EventUniverse == {StartA, FailABoom, SuccessA}

LogStepKeys == {"A", "B"}

(***************************************************************************)
(* Runs handed to the component (props.run)                                *)
(***************************************************************************)
Output(n) == [name |-> n]
Input(k, outs) == [dependsOn |-> [key |-> k, outputs |-> outs]]
Step(k, ins) == [key |-> k, inputs |-> ins]

ConfigGood == "storage: {filesystem: {}}"
ConfigBad == "storage: {filesystem: "

\* yaml.parse: a document for a well-formed blob, an exception otherwise.
YamlParse(blob) ==
  IF blob = ConfigGood
    THEN [ok |-> TRUE, value |-> [storage |-> [filesystem |-> "{}"]]]
    ELSE [ok |-> FALSE, value |-> "YAMLSyntaxError"]

RunFixtures ==
  { [runId |-> "r1", config |-> ConfigGood, mode |-> "default",
     pipeline |-> [name |-> "p1", solids |-> <<[name |-> "a"], [name |-> "b"]>>],
     logs |-> [nodes |-> <<StartA, FailAOops, LogMessage>>],
     executionPlan |->
       [steps |-> << Step("A", <<>>),
                     Step("B", << Input("A", <<Output("result"), Output("value")>>),
                                  Input("A", <<Output("result")>>) >>) >>,
        artifactsPersisted |-> TRUE]],
    [runId |-> "r2", config |-> ConfigGood, mode |-> "dev",
     pipeline |-> [name |-> "p2", solids |-> <<[name |-> "a"]>>],
     logs |-> [nodes |-> <<FailNoStep, SkippedB, FailBOops>>],
     executionPlan |->
       [steps |-> << Step("A", << Input("A", <<Output("result")>>) >>) >>,
        artifactsPersisted |-> FALSE]],
    [runId |-> "r3", config |-> ConfigBad, mode |-> "default",
     pipeline |-> [name |-> "p3", solids |-> <<[name |-> "a"]>>],
     logs |-> [nodes |-> <<>>],
     executionPlan |->
       [steps |-> << Step("A", <<>>) >>,
        artifactsPersisted |-> TRUE]] }

WithLogs(f, nodes) ==
  [runId |-> f.runId, config |-> f.config, mode |-> f.mode, pipeline |-> f.pipeline,
   logs |-> [nodes |-> nodes], executionPlan |-> f.executionPlan]

\* The log a run had when the view first received it.
FetchedNodes(runId) == (CHOOSE f \in RunFixtures : f.runId = runId).logs.nodes

StepArgs == {"A", "B", "Z"}

(***************************************************************************)
(* Array helpers                                                           *)
(***************************************************************************)
\* Array.prototype.find visits the indices in ascending order and stops at the
\* first one whose element passes: the least index of those that pass.
FirstOf(hits) == CHOOSE i \in hits : \A j \in hits : i <= j

RemoveAt(s, i) == [k \in 1..(Len(s) - 1) |-> IF k < i THEN s[k] ELSE s[k + 1]]

(***************************************************************************)
(* StepStatusEngine (RunMetadataProvider): fold of the events per step key *)
(***************************************************************************)
Waiting == [state |-> "Waiting", startedAt |-> Undefined, endedAt |-> Undefined,
            lastError |-> Undefined]

TerminalStates == {"Succeeded", "Failed", "Skipped"}

TerminalStateOf(tn) ==
  CASE tn = "ExecutionStepSuccessEvent" -> "Succeeded"
    [] tn = "ExecutionStepFailureEvent" -> "Failed"
    [] tn = "ExecutionStepSkippedEvent" -> "Skipped"

\* A terminal event overwrites the status whatever it was.
ApplyEventOverwriting(st, ev) ==
  IF ev.__typename = "ExecutionStepStartEvent"
    THEN IF st.state = "Waiting"
           THEN [st EXCEPT !.state = "Started", !.startedAt = Some(ev.timestamp)]
           ELSE st
    ELSE IF ev.__typename \in {"ExecutionStepSuccessEvent", "ExecutionStepFailureEvent",
                               "ExecutionStepSkippedEvent"}
      THEN [st EXCEPT !.state = TerminalStateOf(ev.__typename),
                      !.endedAt = Some(ev.timestamp),
                      !.lastError = IF ev.__typename = "ExecutionStepFailureEvent"
                                      THEN ev.error ELSE st.lastError]
      ELSE st

\* One event applied to the status of the step it names.
ApplyEvent(st, ev) ==
  IF ev.__typename = "ExecutionStepStartEvent"
    THEN IF st.state = "Waiting"
           THEN [st EXCEPT !.state = "Started", !.startedAt = Some(ev.timestamp)]
           ELSE st
    ELSE IF ev.__typename \in {"ExecutionStepSuccessEvent", "ExecutionStepFailureEvent",
                               "ExecutionStepSkippedEvent"}
      THEN IF st.state \in {"Waiting", "Started"}
             THEN [st EXCEPT !.state = TerminalStateOf(ev.__typename),
                             !.endedAt = Some(ev.timestamp),
                             !.lastError = IF ev.__typename = "ExecutionStepFailureEvent"
                                             THEN ev.error ELSE st.lastError]
             ELSE st
      ELSE st

Process(statuses, ev) ==
  IF IsDefined(ev.step) /\ Get(ev.step).name \in DOMAIN statuses
    THEN [statuses EXCEPT ![Get(ev.step).name] = ApplyEvent(@, ev)]
    ELSE statuses

RECURSIVE FoldEvents(_, _)
FoldEvents(statuses, evs) ==
  IF evs = <<>> THEN statuses ELSE FoldEvents(Process(statuses, evs[1]), Tail(evs))

FullRecompute(log) == FoldEvents([k \in LogStepKeys |-> Waiting], log)

(***************************************************************************)
(* LogFilterEngine (LogsFilterProvider)                                    *)
(***************************************************************************)
Levels == {"DEBUG", "INFO", "ERROR"}

DefaultLogFilter == [text |-> <<>>, levels |-> Levels, sinceStepKey |-> Undefined]

ToolbarFilters ==
  { DefaultLogFilter,
    [text |-> <<>>, levels |-> {"ERROR", "INFO"}, sinceStepKey |-> Some("A")] }

IsStartOf(ev, k) ==
  /\ ev.__typename = "ExecutionStepStartEvent"
  /\ IsDefined(ev.step)
  /\ Get(ev.step).name = k

Passes(spec, log, i) ==
  /\ spec.text = <<>> \/ Contains(ToLower(log[i].message), ToLower(spec.text))
  /\ log[i].level \in spec.levels
  /\ IsDefined(spec.sinceStepKey) =>
       \E j \in 1..i : IsStartOf(log[j], Get(spec.sinceStepKey))

RECURSIVE ApplyFrom(_, _, _)
ApplyFrom(spec, log, i) ==
  IF i > Len(log) THEN <<>>
  ELSE (IF Passes(spec, log, i) THEN <<log[i]>> ELSE <<>>) \o ApplyFrom(spec, log, i + 1)

Apply(log, spec) == ApplyFrom(spec, log, 1)

(***************************************************************************)
(* render(): what the children receive                                     *)
(***************************************************************************)
DefaultExecutionPlan == [steps |-> <<>>, artifactsPersisted |-> FALSE]

\* RunMetadataProvider is handed what the log table shows.
RenderMetadataFromFiltered(r, filter, hl, vw) ==
  LET logs == IF IsDefined(r) THEN Some(Get(r).logs.nodes) ELSE Undefined
      filteredNodes == IF IsDefined(logs) THEN Apply(Get(logs), filter) ELSE <<>>
  IN [ logsWidth |-> vw,
       toolbarFilter |-> filter,
       providerNodes |-> logs,
       tableNodes |-> filteredNodes,
       metadataLogs |-> filteredNodes,
       runMetadata |-> FullRecompute(filteredNodes),
       executionPlan |-> IF IsDefined(r) THEN Get(r).executionPlan ELSE DefaultExecutionPlan,
       dialogOpen |-> IsDefined(hl),
       dialogError |-> hl ]

Render(r, filter, hl, vw) ==
  LET logs == IF IsDefined(r) THEN Some(Get(r).logs.nodes) ELSE Undefined
      filteredNodes == IF IsDefined(logs) THEN Apply(Get(logs), filter) ELSE <<>>
      metadataLogs == IF IsDefined(logs) THEN Get(logs) ELSE <<>>
  IN [ logsWidth |-> vw,
       toolbarFilter |-> filter,
       providerNodes |-> logs,
       tableNodes |-> filteredNodes,
       metadataLogs |-> metadataLogs,
       runMetadata |-> FullRecompute(metadataLogs),
       executionPlan |-> IF IsDefined(r) THEN Get(r).executionPlan ELSE DefaultExecutionPlan,
       dialogOpen |-> IsDefined(hl),
       dialogError |-> hl ]

Rerender == view' = Render(run', logsFilter', highlightedError', logsVW')

InitialLogsVW == 75
PanelWidths == {InitialLogsVW, 50}

MutationResults == {"StartPipelineExecutionSuccess", "PythonError"}

\* What a handler did: its outcome, the collaborators it called in order, the
\* variables it gave the mutation and the arguments it gave handleStartExecutionResult.
Did(op, outcome, calls, request, handled) ==
  [op |-> op, outcome |-> outcome, calls |-> calls, request |-> request, handled |-> handled]

Quiet(op, outcome) == Did(op, outcome, <<>>, Undefined, Undefined)

\* Handlers that call no collaborator and report nothing.
Silent == Quiet("none", "none")

(***************************************************************************)
(* Re-execution planning (onReexecuteStep, lines 145-160)                  *)
(***************************************************************************)
\* The lookup falls back to the first step of the plan.
FindStepOrFirst(r, name) ==
  LET steps == r.executionPlan.steps
      hits == {i \in 1..Len(steps) : steps[i].key = name}
  IN IF hits # {} THEN Some(steps[FirstOf(hits)])
     ELSE IF steps # <<>> THEN Some(steps[1]) ELSE Undefined

FindStep(r, name) ==
  LET steps == r.executionPlan.steps
      hits == {i \in 1..Len(steps) : steps[i].key = name}
  IN IF hits # {} THEN Some(steps[FirstOf(hits)]) ELSE Undefined

HandlesOfInput(input) ==
  [j \in 1..Len(input.dependsOn.outputs) |->
     [stepKey |-> input.dependsOn.key, outputName |-> input.dependsOn.outputs[j].name]]

RECURSIVE HandlesOfInputs(_)
HandlesOfInputs(inputs) ==
  IF inputs = <<>> THEN <<>>
  ELSE HandlesOfInput(inputs[1]) \o HandlesOfInputs(Tail(inputs))

StepOutputHandles(stp) == HandlesOfInputs(stp.inputs)

ReexecuteVariables(r, name, stp, config) ==
  [ pipeline |-> [name |-> r.pipeline.name,
                  solidSubset |-> [i \in 1..Len(r.pipeline.solids) |-> r.pipeline.solids[i].name]],
    config |-> config,
    stepKeys |-> <<name>>,
    reexecutionConfig |-> [previousRunId |-> r.runId,
                           stepOutputHandles |-> StepOutputHandles(stp)],
    mode |-> r.mode ]

(***************************************************************************)
(* Handlers                                                                *)
(***************************************************************************)
IsFailureOf(node, stp) ==
  /\ node.__typename = "ExecutionStepFailureEvent"
  /\ IsDefined(node.step)
  /\ Get(node.step).name = stp

LastOf(hits) == CHOOSE i \in hits : \A j \in hits : i >= j

FindErrorNode(nodes, stp) ==
  LET hits == {i \in 1..Len(nodes) : IsFailureOf(nodes[i], stp)}
  IN IF hits # {} THEN Some(nodes[FirstOf(hits)]) ELSE Undefined

FindLatestErrorNode(nodes, stp) ==
  LET hits == {i \in 1..Len(nodes) : IsFailureOf(nodes[i], stp)}
  IN IF hits # {} THEN Some(nodes[LastOf(hits)]) ELSE Undefined

\* The lookup shows the most recent failure of the step.
onShowStateDetailsLatestFailure(stp) ==
  /\ UNCHANGED <<run, logsVW, logsFilter, inflight>>
  /\ IF ~IsDefined(run)
       THEN /\ last' = Quiet("onShowStateDetails", "NoRun")
            /\ UNCHANGED <<highlightedError, view>>
       ELSE LET errorNode == FindLatestErrorNode(Get(run).logs.nodes, stp)
            IN IF IsDefined(errorNode)
                 THEN /\ highlightedError' = Get(errorNode).error
                      /\ last' = Quiet("onShowStateDetails", "Highlighted")
                      /\ Rerender
                 ELSE /\ last' = Quiet("onShowStateDetails", "NotFound")
                      /\ UNCHANGED <<highlightedError, view>>
  /\ UNCHANGED walkVars

onShowStateDetails(stp) ==
  /\ UNCHANGED <<run, logsVW, logsFilter, inflight>>
  /\ IF ~IsDefined(run)
       THEN /\ last' = Quiet("onShowStateDetails", "NoRun")
            /\ UNCHANGED <<highlightedError, view>>
       ELSE LET errorNode == FindErrorNode(Get(run).logs.nodes, stp)
            IN IF IsDefined(errorNode)
                 THEN /\ highlightedError' = Get(errorNode).error
                      /\ last' = Quiet("onShowStateDetails", "Highlighted")
                      /\ Rerender
                 ELSE /\ last' = Quiet("onShowStateDetails", "NotFound")
                      /\ UNCHANGED <<highlightedError, view>>
  /\ UNCHANGED walkVars

\* lines 162-173: the mutation's variables are evaluated, yaml.parse among them,
\* then the mutation is invoked and its promise awaited. The mutation is invoked
\* although yaml.parse threw, with the blob as it is.
SubmitReexecutionUnparsed(r, name, stp) ==
  LET parsed == YamlParse(r.config)
  IN /\ last' = Did("onReexecuteStep", "Submitted", <<"yaml.parse", "mutation">>,
                    Some(ReexecuteVariables(r, name, stp,
                                            IF parsed.ok THEN parsed.value ELSE r.config)),
                    Undefined)
     /\ inflight' = Append(inflight, r.pipeline.name)

\* lines 162-173: the mutation's variables are evaluated, yaml.parse among them,
\* then the mutation is invoked and its promise awaited.
SubmitReexecution(r, name, stp) ==
  LET parsed == YamlParse(r.config)
  IN IF ~parsed.ok
       THEN /\ last' = Did("onReexecuteStep", "ConfigParseError", <<"yaml.parse">>,
                           Undefined, Undefined)
            /\ UNCHANGED inflight
       ELSE /\ last' = Did("onReexecuteStep", "Submitted", <<"yaml.parse", "mutation">>,
                           Some(ReexecuteVariables(r, name, stp, parsed.value)),
                           Undefined)
            /\ inflight' = Append(inflight, r.pipeline.name)

\* The synchronous part of onReexecuteStep, up to the await of the mutation.
onReexecuteStep(name) ==
  /\ Len(inflight) < MaxInFlight
  /\ IF ~IsDefined(run)
       THEN /\ last' = Quiet("onReexecuteStep", "NoRun")
            /\ UNCHANGED inflight
       ELSE IF ~IsDefined(FindStep(Get(run), name))
         THEN /\ last' = Quiet("onReexecuteStep", "StepNotFound")
              /\ UNCHANGED inflight
         ELSE SubmitReexecution(Get(run), name, Get(FindStep(Get(run), name)))
  /\ UNCHANGED <<run, logsVW, logsFilter, highlightedError, view>>
  /\ UNCHANGED walkVars

\* The mutation's promise resolves: onReexecuteStep resumes after the await.
MutationResolved(i, result) ==
  /\ i \in 1..Len(inflight)
  /\ last' = Did("onReexecuteStep", "Handled", <<"handleStartExecutionResult">>, Undefined,
                 Some([pipelineName |-> inflight[i], result |-> result]))
  /\ inflight' = RemoveAt(inflight, i)
  /\ UNCHANGED <<run, logsVW, logsFilter, highlightedError, view>>
  /\ UNCHANGED walkVars

\* The mutation's promise rejects: the await throws and onReexecuteStep ends.
MutationRejected(i) ==
  /\ i \in 1..Len(inflight)
  /\ last' = Quiet("onReexecuteStep", "Rejected")
  /\ inflight' = RemoveAt(inflight, i)
  /\ UNCHANGED <<run, logsVW, logsFilter, highlightedError, view>>
  /\ UNCHANGED walkVars

onSetFilter(filter) ==
  /\ logsFilter' = filter
  /\ last' = Silent
  /\ UNCHANGED <<run, logsVW, highlightedError, inflight>>
  /\ Rerender
  /\ UNCHANGED walkVars

onApplyStepFilter(name) ==
  /\ logsFilter' = [logsFilter EXCEPT !.text = StepPrefix \o <<name>>]
  /\ last' = Silent
  /\ UNCHANGED <<run, logsVW, highlightedError, inflight>>
  /\ Rerender
  /\ UNCHANGED walkVars

onMove(vw) ==
  /\ logsVW' = vw
  /\ last' = Silent
  /\ UNCHANGED <<run, logsFilter, highlightedError, inflight>>
  /\ Rerender
  /\ UNCHANGED walkVars

onClose ==
  /\ highlightedError' = Undefined
  /\ last' = Silent
  /\ UNCHANGED <<run, logsVW, logsFilter, inflight>>
  /\ Rerender
  /\ UNCHANGED walkVars

(***************************************************************************)
(* The parent: new props                                                   *)
(***************************************************************************)
RunIdOf(r) == IF IsDefined(r) THEN Some(Get(r).runId) ELSE Undefined

\* The parent renders the component with another run, or with none.
SetRun(r) ==
  /\ RunIdOf(r) # RunIdOf(run)
  /\ run' = r
  /\ last' = Silent
  /\ UNCHANGED <<logsVW, logsFilter, highlightedError, inflight>>
  /\ Rerender
  /\ UNCHANGED walkVars

\* The subscription appends an event to the log of the run shown.
AppendLog(ev) ==
  /\ IsDefined(run)
  /\ Len(Get(run).logs.nodes) < Len(FetchedNodes(Get(run).runId)) + MaxLog
  /\ run' = Some(WithLogs(Get(run), Append(Get(run).logs.nodes, ev)))
  /\ last' = Silent
  /\ UNCHANGED <<logsVW, logsFilter, highlightedError, inflight>>
  /\ Rerender
  /\ UNCHANGED walkVars

WalkIdle ==
  /\ pc = "idle"
  /\ stepName = "A"
  /\ step = Undefined
  /\ inputIdx = 1
  /\ outputIdx = 1
  /\ reexecutionConfig = Undefined
  /\ ticks = 0

Init ==
  /\ run \in {Undefined} \cup {Some(f) : f \in RunFixtures}
  /\ logsVW = InitialLogsVW
  /\ logsFilter = DefaultLogFilter
  /\ highlightedError = Undefined
  /\ inflight = <<>>
  /\ last = Silent
  /\ view = Render(run, logsFilter, highlightedError, logsVW)
  /\ WalkIdle

Next ==
  \/ \E s \in StepArgs : onShowStateDetails(s)
  \/ \E s \in StepArgs : onReexecuteStep(s)
  \/ \E i \in 1..MaxInFlight, res \in MutationResults : MutationResolved(i, res)
  \/ \E i \in 1..MaxInFlight : MutationRejected(i)
  \/ \E f \in ToolbarFilters : onSetFilter(f)
  \/ \E s \in StepArgs : onApplyStepFilter(s)
  \/ \E vw \in PanelWidths : onMove(vw)
  \/ onClose
  \/ \E r \in {Undefined} \cup {Some(f) : f \in RunFixtures} : SetRun(r)
  \/ \E ev \in EventUniverse : AppendLog(ev)

Spec == Init /\ [][Next]_vars

(***************************************************************************)
(* Properties of the view                                                  *)
(***************************************************************************)
NodesOf(r) == IF IsDefined(r) THEN Get(r).logs.nodes ELSE <<>>

KnownKeys(r) == {r.executionPlan.steps[i].key : i \in 1..Len(r.executionPlan.steps)}

Called(calls, c) == \E p \in 1..Len(calls) : calls[p] = c

CalledBefore(calls, c, d) ==
  \E p \in 1..Len(calls), q \in 1..Len(calls) : p < q /\ calls[p] = c /\ calls[q] = d

\* C3: onReexecuteStep with a key that no step of the run's execution plan has
\* ends as StepNotFound: it calls no collaborator, builds no request, leaves the
\* awaited mutations as they were and changes neither the state nor what is
\* rendered.
C3_UnknownStepSubmitsNothing ==
  [][\A s \in StepArgs :
       (onReexecuteStep(s) /\ IsDefined(run) /\ s \notin KnownKeys(Get(run)))
         => /\ last'.outcome = "StepNotFound"
            /\ last'.calls = <<>>
            /\ last'.request = Undefined
            /\ last'.handled = Undefined
            /\ UNCHANGED <<run, logsVW, logsFilter, highlightedError, inflight, view>>]_vars

\* onReexecuteStep has just returned StepNotFound for a run that is shown.
C3_Witness ==
  /\ IsDefined(run)
  /\ last.op = "onReexecuteStep"
  /\ last.outcome = "StepNotFound"
  /\ inflight = <<>>

\* C4: in every onReexecuteStep the config is parsed before the mutation is
\* invoked; when parsing fails the handler ends as ConfigParseError with no
\* mutation invoked, no request, nothing awaited and handleStartExecutionResult
\* not called; and handleStartExecutionResult is only ever called for an awaited
\* mutation, each of which belongs to a run whose config parsed.
C4_ParseFailureAbortsSubmission ==
  /\ [](\A i \in 1..Len(inflight) :
          \A f \in RunFixtures : f.pipeline.name = inflight[i] => YamlParse(f.config).ok)
  /\ [][\A s \in StepArgs :
          onReexecuteStep(s) =>
            /\ Called(last'.calls, "mutation")
                 => CalledBefore(last'.calls, "yaml.parse", "mutation")
            /\ (IsDefined(run) /\ s \in KnownKeys(Get(run)) /\ ~YamlParse(Get(run).config).ok)
                 => /\ last'.outcome = "ConfigParseError"
                    /\ ~Called(last'.calls, "mutation")
                    /\ ~Called(last'.calls, "handleStartExecutionResult")
                    /\ last'.request = Undefined
                    /\ last'.handled = Undefined
                    /\ inflight' = inflight]_vars
  /\ [][Called(last'.calls, "handleStartExecutionResult")
          => Len(inflight') = Len(inflight) - 1]_vars

\* onReexecuteStep has just failed to parse the config of the run shown.
C4_Witness ==
  /\ IsDefined(run)
  /\ ~YamlParse(Get(run).config).ok
  /\ last.op = "onReexecuteStep"
  /\ last.outcome = "ConfigParseError"
  /\ last.calls = <<"yaml.parse">>

\* C5: when the plan of the run has artifactsPersisted = false, a submission is
\* preceded by an ArtifactsNotPersistedWarning raised by the same handler.
C5_WarningBeforeSubmission ==
  (/\ last.op = "onReexecuteStep"
   /\ last.outcome = "Submitted"
   /\ IsDefined(run)
   /\ ~Get(run).executionPlan.artifactsPersisted)
    => CalledBefore(last.calls, "ArtifactsNotPersistedWarning", "mutation")

\* C6: onShowStateDetails(s) sets the highlighted error (and the dialog) to the
\* error of the earliest log event that is a step failure of s; when the log has
\* none, or there is no run, it calls nothing and leaves the highlighted error,
\* the filter, the run with its log and what is rendered unchanged.
C6_ErrorLookupFirstFailure ==
  [][\A s \in StepArgs :
       onShowStateDetails(s) =>
         LET nodes == NodesOf(run)
             hits == {i \in 1..Len(nodes) :
                        /\ nodes[i].__typename = "ExecutionStepFailureEvent"
                        /\ nodes[i].step = Some([name |-> s])}
         IN /\ last'.calls = <<>>
            /\ UNCHANGED <<run, logsVW, logsFilter, inflight>>
            /\ IF hits # {}
                 THEN \E i \in hits :
                        /\ \A j \in hits : i <= j
                        /\ highlightedError' = nodes[i].error
                        /\ view'.dialogOpen
                        /\ view'.dialogError = nodes[i].error
                 ELSE UNCHANGED <<highlightedError, view>>]_vars

\* Step A failed twice, with different errors; the lookup shows the first.
C6_Witness ==
  /\ last.op = "onShowStateDetails"
  /\ last.outcome = "Highlighted"
  /\ NodesOf(run) = <<StartA, FailAOops, LogMessage, FailABoom>>
  /\ highlightedError = Some(ErrOops)

\* C7: closing the dialog clears the highlighted error, and so does every change
\* of the run shown to another run.
C7_ClearedOnDismissOrNewRun ==
  [][/\ onClose => highlightedError' = Undefined
     /\ (IsDefined(run') /\ RunIdOf(run') # RunIdOf(run)) => highlightedError' = Undefined]_vars

\* C8: while the same run is shown, a step key whose derived status is Succeeded,
\* Failed or Skipped keeps its whole status (state, startedAt, endedAt, lastError)
\* whatever happens next.
C8_TerminalStatusIsSticky ==
  [][(IsDefined(run) /\ IsDefined(run') /\ RunIdOf(run') = RunIdOf(run)) =>
       \A k \in LogStepKeys :
         view.runMetadata[k].state \in TerminalStates
           => view'.runMetadata[k] = view.runMetadata[k]]_vars

\* Step A failed, then a success event for A arrived: A is still Failed, with
\* the failure's time and error.
C8_Witness ==
  /\ NodesOf(run) = <<StartA, FailAOops, LogMessage, SuccessA>>
  /\ view.runMetadata["A"] = [state |-> "Failed", startedAt |-> Some(StartA.timestamp),
                              endedAt |-> Some(FailAOops.timestamp),
                              lastError |-> Some(ErrOops)]

IsPrefix(s, t) == Len(s) <= Len(t) /\ \A i \in 1..Len(s) : s[i] = t[i]

\* C9: status derivation is always given the full log of the run shown; a filter
\* change leaves the log, the sequence given to status derivation and the
\* derived statuses as they were; while the same run is shown its log only grows
\* at the end; and the error lookup finds a failure exactly when the full log
\* holds one. Only the log table's nodes depend on the filter.
C9_FilteringLeavesLogAlone ==
  /\ [](view.metadataLogs = NodesOf(run))
  /\ [][logsFilter' # logsFilter =>
          /\ run' = run
          /\ view'.metadataLogs = view.metadataLogs
          /\ view'.runMetadata = view.runMetadata]_vars
  /\ [][(IsDefined(run) /\ RunIdOf(run') = RunIdOf(run)) =>
          IsPrefix(NodesOf(run), NodesOf(run'))]_vars
  /\ [][\A s \in StepArgs :
          onShowStateDetails(s) =>
            ((last'.outcome = "Highlighted") <=>
               \E i \in 1..Len(NodesOf(run)) :
                 /\ NodesOf(run)[i].__typename = "ExecutionStepFailureEvent"
                 /\ NodesOf(run)[i].step = Some([name |-> s]))]_vars

\* A filter hides part of a log that has grown since it was fetched, and status
\* derivation still gets all of it.
C9_Witness ==
  /\ IsDefined(run)
  /\ logsFilter # DefaultLogFilter
  /\ Len(NodesOf(run)) > Len(FetchedNodes(Get(run).runId))
  /\ Len(view.tableNodes) < Len(NodesOf(run))
  /\ view.metadataLogs = NodesOf(run)
  /\ view.runMetadata["A"].state = "Failed"

(***************************************************************************)
(* The planner walk: lines 143-160 of onReexecuteStep statement by         *)
(* statement, over generated execution plans (malformed ones included).    *)
(***************************************************************************)
OutputNames == {"result", "value"}
UpstreamKeys == {"A", "B"}

GenInputs ==
  { Input(k, outs) : k \in UpstreamKeys,
                     outs \in SeqsUpTo({Output(n) : n \in OutputNames}, MaxOutputs) }

\* Step B depends on step A, so an A that depends on B closes a cycle and an
\* A that depends on A is a self-dependency.
GenPlans ==
  { [steps |-> << Step("B", <<Input("A", <<Output("value")>>)>>), Step("A", ins) >>,
     artifactsPersisted |-> TRUE] : ins \in SeqsUpTo(GenInputs, MaxInputs) }

GenRuns ==
  { [runId |-> "r1", config |-> ConfigGood, mode |-> "default",
     pipeline |-> [name |-> "p1", solids |-> <<[name |-> "a"], [name |-> "b"]>>],
     logs |-> [nodes |-> <<>>], executionPlan |-> plan] : plan \in GenPlans }

WalkInputs == Get(step).inputs
WalkOutputs == WalkInputs[inputIdx].dependsOn.outputs
WalkHandles == Get(reexecutionConfig).stepOutputHandles

\* line 144: if (!run) return
WalkNoRun ==
  /\ pc = "called"
  /\ ~IsDefined(run)
  /\ pc' = "noRun"
  /\ ticks' = ticks + 1
  /\ UNCHANGED <<stepName, step, inputIdx, outputIdx, reexecutionConfig>>
  /\ UNCHANGED compVars

\* lines 145-146: the find fails, return
WalkStepNotFound ==
  /\ pc = "called"
  /\ IsDefined(run)
  /\ ~IsDefined(FindStep(Get(run), stepName))
  /\ pc' = "stepNotFound"
  /\ ticks' = ticks + 1
  /\ UNCHANGED <<stepName, step, inputIdx, outputIdx, reexecutionConfig>>
  /\ UNCHANGED compVars

\* lines 145-153: the step is found, the config is created, the outer forEach starts
WalkBegin ==
  /\ pc = "called"
  /\ IsDefined(run)
  /\ IsDefined(FindStep(Get(run), stepName))
  /\ step' = FindStep(Get(run), stepName)
  /\ reexecutionConfig' = Some([previousRunId |-> Get(run).runId, stepOutputHandles |-> <<>>])
  /\ inputIdx' = 1
  /\ outputIdx' = 1
  /\ pc' = "forEach"
  /\ ticks' = ticks + 1
  /\ UNCHANGED stepName
  /\ UNCHANGED compVars

\* The push skips a handle the list already holds.
WalkPushDeduplicating ==
  /\ pc = "forEach"
  /\ inputIdx <= Len(WalkInputs)
  /\ outputIdx <= Len(WalkOutputs)
  /\ reexecutionConfig' =
       LET h == [stepKey |-> WalkInputs[inputIdx].dependsOn.key,
                 outputName |-> WalkOutputs[outputIdx].name]
       IN IF \E p \in 1..Len(WalkHandles) : WalkHandles[p] = h
            THEN reexecutionConfig
            ELSE Some([Get(reexecutionConfig) EXCEPT !.stepOutputHandles = Append(@, h)])
  /\ outputIdx' = outputIdx + 1
  /\ ticks' = ticks + 1
  /\ UNCHANGED <<pc, stepName, step, inputIdx>>
  /\ UNCHANGED compVars

\* Only the first output of each upstream step is pushed: one handle per input.
WalkPushFirstOutputOnly ==
  /\ pc = "forEach"
  /\ inputIdx <= Len(WalkInputs)
  /\ outputIdx <= Len(WalkOutputs)
  /\ reexecutionConfig' =
       IF outputIdx = 1
         THEN Some([Get(reexecutionConfig) EXCEPT !.stepOutputHandles =
                      Append(@, [stepKey |-> WalkInputs[inputIdx].dependsOn.key,
                                 outputName |-> WalkOutputs[outputIdx].name])])
         ELSE reexecutionConfig
  /\ outputIdx' = outputIdx + 1
  /\ ticks' = ticks + 1
  /\ UNCHANGED <<pc, stepName, step, inputIdx>>
  /\ UNCHANGED compVars

\* lines 155-158: one push of the inner forEach
WalkPush ==
  /\ pc = "forEach"
  /\ inputIdx <= Len(WalkInputs)
  /\ outputIdx <= Len(WalkOutputs)
  /\ reexecutionConfig' =
       Some([Get(reexecutionConfig) EXCEPT !.stepOutputHandles =
               Append(@, [stepKey |-> WalkInputs[inputIdx].dependsOn.key,
                          outputName |-> WalkOutputs[outputIdx].name])])
  /\ outputIdx' = outputIdx + 1
  /\ ticks' = ticks + 1
  /\ UNCHANGED <<pc, stepName, step, inputIdx>>
  /\ UNCHANGED compVars

\* Once an input's outputs are pushed the walk descends into the upstream step
\* and goes through its inputs in turn.
WalkNextInputFollowingUpstream ==
  /\ pc = "forEach"
  /\ inputIdx <= Len(WalkInputs)
  /\ outputIdx > Len(WalkOutputs)
  /\ IF IsDefined(FindStep(Get(run), WalkInputs[inputIdx].dependsOn.key))
       THEN /\ step' = FindStep(Get(run), WalkInputs[inputIdx].dependsOn.key)
            /\ inputIdx' = 1
       ELSE /\ step' = step
            /\ inputIdx' = inputIdx + 1
  /\ outputIdx' = 1
  /\ ticks' = ticks + 1
  /\ UNCHANGED <<pc, stepName, reexecutionConfig>>
  /\ UNCHANGED compVars

\* line 159: the inner forEach is exhausted, the outer one moves to the next input
WalkNextInput ==
  /\ pc = "forEach"
  /\ inputIdx <= Len(WalkInputs)
  /\ outputIdx > Len(WalkOutputs)
  /\ inputIdx' = inputIdx + 1
  /\ outputIdx' = 1
  /\ ticks' = ticks + 1
  /\ UNCHANGED <<pc, stepName, step, reexecutionConfig>>
  /\ UNCHANGED compVars

\* line 160: the outer forEach is exhausted, the config is complete
WalkBuilt ==
  /\ pc = "forEach"
  /\ inputIdx > Len(WalkInputs)
  /\ pc' = "built"
  /\ ticks' = ticks + 1
  /\ UNCHANGED <<stepName, step, inputIdx, outputIdx, reexecutionConfig>>
  /\ UNCHANGED compVars

InitPlanner ==
  /\ run \in {Undefined} \cup {Some(r) : r \in GenRuns}
  /\ logsVW = InitialLogsVW
  /\ logsFilter = DefaultLogFilter
  /\ highlightedError = Undefined
  /\ inflight = <<>>
  /\ last = Silent
  /\ view = Render(run, logsFilter, highlightedError, logsVW)
  /\ pc = "called"
  /\ stepName \in StepArgs
  /\ step = Undefined
  /\ inputIdx = 1
  /\ outputIdx = 1
  /\ reexecutionConfig = Undefined
  /\ ticks = 0

NextPlanner ==
  \/ WalkNoRun
  \/ WalkStepNotFound
  \/ WalkBegin
  \/ WalkPush
  \/ WalkNextInput
  \/ WalkBuilt

\* The walk is synchronous code: it runs to completion once called.
SpecPlanner == InitPlanner /\ [][NextPlanner]_vars /\ WF_vars(NextPlanner)

\* The statement-by-statement walk builds what the handler submits.
WalkAgreesWithHandler ==
  pc = "built" =>
    Get(reexecutionConfig) =
      ReexecuteVariables(Get(run), stepName, Get(step), "cfg").reexecutionConfig

(***************************************************************************)
(* Properties of the planner walk                                          *)
(***************************************************************************)
OutCounts(ins) == [i \in 1..Len(ins) |-> Len(ins[i].dependsOn.outputs)]

\* Number of handles the inputs before the i-th account for.
Offset(ins, i) == SumSeq(SubSeq(OutCounts(ins), 1, i - 1))

HandleAt(ins, i, j) ==
  [stepKey |-> ins[i].dependsOn.key, outputName |-> ins[i].dependsOn.outputs[j].name]

\* C1: once the request is built, stepOutputHandles holds, for the i-th input and
\* its upstream step's j-th output, the handle {upstream key, output name} at
\* position (outputs of the inputs before i) + j, and nothing else: input
\* declaration order, then output declaration order, nothing dropped, reordered
\* or deduplicated.
C1_HandlesInDeclarationOrder ==
  pc = "built" =>
    /\ Get(reexecutionConfig).previousRunId = Get(run).runId
    /\ Len(WalkHandles) = Offset(WalkInputs, Len(WalkInputs) + 1)
    /\ \A i \in 1..Len(WalkInputs) :
         \A j \in 1..Len(WalkInputs[i].dependsOn.outputs) :
           WalkHandles[Offset(WalkInputs, i) + j] = HandleAt(WalkInputs, i, j)

\* The spec's example: inputs on A (output result) and on B (output value), plus
\* the result [{A,result},{B,value}].
C1_Witness ==
  /\ pc = "built"
  /\ WalkInputs = << Input("A", <<Output("result")>>), Input("B", <<Output("value")>>) >>
  /\ WalkHandles = << [stepKey |-> "A", outputName |-> "result"],
                      [stepKey |-> "B", outputName |-> "value"] >>

Occurrences(hs, h) == Cardinality({p \in 1..Len(hs) : hs[p] = h})

Declared(ins, h) ==
  Cardinality({ij \in (1..Len(ins)) \X (1..MaxOutputs) :
                 /\ ij[2] <= Len(ins[ij[1]].dependsOn.outputs)
                 /\ HandleAt(ins, ij[1], ij[2]) = h})

WalkBudget ==
  IF IsDefined(step) THEN 2 + Len(WalkInputs) + SumSeq(OutCounts(WalkInputs)) ELSE 1

\* C10: the walk ends for every plan, cyclic and self-dependent ones included:
\* it never takes more statements than the target step's inputs and their
\* upstream outputs call for, it can always go on until it has returned, it stays
\* on the target step, and every stepKey it records is the key an input of the
\* target step depends on.
C10_WalkEndsOnDirectDependencies ==
  /\ ticks <= WalkBudget
  /\ pc \in {"called", "forEach"} => ENABLED NextPlanner
  /\ IsDefined(step) => Get(step).key = stepName
  /\ pc = "built" =>
       /\ ticks = WalkBudget
       /\ \A p \in 1..Len(WalkHandles) :
            \E i \in 1..Len(WalkInputs) : WalkHandles[p].stepKey = WalkInputs[i].dependsOn.key

\* Step A depends on itself and on B, which depends on A; the walk has ended.
C10_Witness ==
  /\ pc = "built"
  /\ Get(step).key = "A"
  /\ \E i \in 1..Len(WalkInputs) : WalkInputs[i].dependsOn.key = "A"
  /\ \E i \in 1..Len(WalkInputs) : WalkInputs[i].dependsOn.key = "B"
  /\ \E s \in 1..Len(Get(run).executionPlan.steps) :
       /\ Get(run).executionPlan.steps[s].key = "B"
       /\ Get(run).executionPlan.steps[s].inputs[1].dependsOn.key = "A"

====
